---- MODULE Spec2Model ----
\* Model of the repository test-orchestration pipeline of
\* src/repo_clone_and_execute_tests.py: main() -> RepoTestRunner() ->
\* run_tests_for_repos -> clone_and_test_repo -> _clone_repo_locally /
\* _run_tests_with_compose, with the repos/ and results/ directories as
\* state that outlives one process run.
EXTENDS Integers, Sequences, FiniteSets, TLC

\* ---------------------------------------------------------------- bounds
\* Largest test count an artifact field holds.
MaxCount == 5
\* Number of process runs (batches) over the same repos/ and results/.
MaxBatches == 2
\* Repository names of the organization (besides "eval").
Repos == {"A", "B"}
\* Return codes a child process ends with.
ExitCodes == {0, 1}

\* ------------------------------------------------------- program constants
\* _safe_remove_directory: max_retries = 3
max_retries == 3

\* ------------------------------------------------------------ JSON values
\* A value under a key of a JSON object: the key is absent, or holds an
\* integer, or holds something that is not a number (a string, null).
Absent == [kind |-> "absent", v |-> 0, text |-> ""]

Num(n) == [kind |-> "int", v |-> n, text |-> ""]

Str(s) == [kind |-> "str", v |-> 0, text |-> s]

FieldVals == {Absent, Str("x")} \cup {Num(n) : n \in 0..MaxCount}

\* The "duration" key: absent, a number, or a string.
Durations == {"absent", "number", "str"}

\* The "test_details" key: absent, a list of objects, or a list of strings.
TestDetails == {"absent", "objects", "strings"}

\* What the file {repo}_results.json holds. form: "undecodable" (bytes that
\* are not UTF-8), "invalid_json", "non_object" (valid JSON, not an object),
\* "object". NoFile: the file does not exist.
Json(form, total, failed, error, duration, details) ==
  [form |-> form, total |-> total, failed |-> failed, error |-> error,
   duration |-> duration, test_details |-> details]

NoFile == Json("none", Absent, Absent, Absent, "absent", "absent")

Undecodable == Json("undecodable", Absent, Absent, Absent, "absent", "absent")

InvalidJson == Json("invalid_json", Absent, Absent, Absent, "absent", "absent")

NonObject == Json("non_object", Absent, Absent, Absent, "absent", "absent")

Objects ==
  {Json("object", t, f, e, d, td) :
     t \in FieldVals, f \in FieldVals, e \in FieldVals,
     d \in Durations, td \in TestDetails}

\* Every artifact content the container can leave behind.
AllArtifacts == {Undecodable, InvalidJson, NonObject} \cup Objects

\* One artifact of each behaviour, for the runs over several repositories.
BatchArtifacts ==
  {Undecodable, InvalidJson,
   Json("object", Num(MaxCount), Num(0), Num(0), "number", "objects"),
   Json("object", Num(MaxCount), Num(1), Num(0), "number", "objects"),
   Json("object", Num(1), Absent, Absent, "str", "absent")}

\* results_data of a RunResult that has none (the key is not in the dict).
NoData == NoFile

\* {"error": text}
ErrorData(text) == Json("object", Absent, Absent, Str(text), "absent", "absent")

\* Variant: dict.get(key), an absent key is not read as 0.
get_no_default(field) == field

\* dict.get(key, 0)
Get0(field) == IF field.kind = "absent" THEN Num(0) ELSE field

\* x > 0 raises TypeError when x is not a number
GtRaises(field) == field.kind = "str"

GtZero(field) == field.kind = "int" /\ field.v > 0

\* x == 0 is False, without raising, when x is not a number
EqZero(field) == field.kind = "int" /\ field.v = 0

\* ------------------------------------------------------------- RunResult
NoError == "<no error key>"

RunResult(repo, success, exit_code, error, results_data) ==
  [repo_name |-> repo, success |-> success, exit_code |-> exit_code,
   error |-> error, results_data |-> results_data]

DockerError ==
  "Docker is not available or not running. Please start Docker Desktop and try again."

CloneError == "Failed to clone repository"

ComposeError == "Docker compose failed"

\* ------------------------------------------- _run_tests_with_compose, 165-203
\* Variant: a report without tests counts as passed.
test_success_any_total(data) ==
  /\ data.form = "object"
  /\ EqZero(Get0(data.failed))
  /\ EqZero(Get0(data.error))

\* test_success of lines 176-184; FALSE when results_data is not a dict.
test_success(data) ==
  /\ data.form = "object"
  /\ GtZero(Get0(data.total))
  /\ EqZero(Get0(data.failed))
  /\ EqZero(Get0(data.error))

\* Variant: the container's exit code is taken into account.
run_success_zero_exit(data, returncode) ==
  test_success(data) /\ returncode = 0

\* "success": test_success  (line 198): the container's exit code is not used.
run_success(data, returncode) == test_success(data)

\* Variant: without a results file the container's exit code decides.
read_results_exit_fallback(repo, file, returncode) ==
  IF file.form = "none"
  THEN [exc |-> "none",
        result |-> RunResult(repo, returncode = 0, returncode, NoError, NoData)]
  ELSE [exc |-> "none",
        result |-> RunResult(repo, run_success(file, returncode), returncode,
                             NoError, file)]

\* Reading the results file after the container finished: the exception that
\* leaves _run_tests_with_compose ("none": it returns) and the dict it returns.
read_results(repo, file, returncode) ==
  IF file.form = "none"
  THEN [exc |-> "none",
        result |-> RunResult(repo, FALSE, returncode, NoError,
                             ErrorData("Results file not created"))]
  ELSE IF file.form = "undecodable"
  THEN [exc |-> "UnicodeDecodeError",
        result |-> RunResult(repo, FALSE, returncode, NoError, NoData)]
  ELSE IF file.form = "invalid_json"
  THEN [exc |-> "none",
        result |-> RunResult(repo, FALSE, returncode, NoError,
                             ErrorData("Failed to parse JSON"))]
  ELSE IF file.form = "object" /\ GtRaises(Get0(file.total))
  THEN [exc |-> "TypeError",
        result |-> RunResult(repo, FALSE, returncode, NoError, NoData)]
  ELSE [exc |-> "none",
        result |-> RunResult(repo, run_success(file, returncode), returncode,
                             NoError, file)]

\* ------------------------------------------------- DetailedTestResults, 13-25
DetailedTestResults(json_data) ==
  [failed |-> Get0(json_data.failed),
   error |-> Get0(json_data.error),
   total |-> Get0(json_data.total),
   duration |-> IF json_data.duration = "absent" THEN "number"
                ELSE json_data.duration,
   test_details |-> IF json_data.test_details = "absent" THEN "empty"
                    ELSE json_data.test_details]

\* ---------------------------------------------- _display_repo_results, 257-293
\* The exception printing a result ends with, "none" when it returns.
display_repo_results(result) ==
  IF ~result.success THEN "none"
  ELSE IF result.results_data.form = "object"
          /\ result.results_data.error.kind # "str"
  THEN LET detailed_results == DetailedTestResults(result.results_data)
       IN IF detailed_results.duration = "str" THEN "ValueError"
          ELSE IF detailed_results.test_details = "strings"
          THEN "AttributeError"
          ELSE "none"
  ELSE "none"

\* ------------------------------------------------------------------ state
VARIABLES
  entry,            \* how this process run is driven: "main" (main()) or
                    \* "api" (a caller builds RepoTestRunner and calls
                    \* run_tests_for_repos itself)
  pc,               \* where the run is
  exc,              \* the exception that ended the run, "none" otherwise
  batch,            \* number of this process run
  repo_names,       \* the list run_tests_for_repos iterates
  docker_available, \* RepoTestRunner.docker_available
  runner,           \* TRUE once RepoTestRunner() has returned the object
  idx,              \* position of the for loop in repo_names (from 1)
  attempt,          \* _safe_remove_directory: attempt
  returncode,       \* _run_tests_with_compose: result.returncode
  results,          \* run_tests_for_repos: results
  summary,          \* main: what the summary line printed
  repos_dir,        \* names of the directories under repos/
  results_dir,      \* results/{repo}_results.json, per repository
  calls,            \* per repository, what happened for it in this run:
                    \* "rmtree", "git", "build", "run" (the call was made),
                    \* "cloned", "built" (the child process exited 0),
                    \* "exited" (the container ran and exited), "wrote"
                    \* (the harness wrote the results file), "removed",
                    \* "remove_failed" (what _safe_remove_directory
                    \* returned to _clone_repo_locally: True, False)
  sweep             \* cleanup(): todo, the directories of repos/ the for
                    \* loop has yet to visit; tried, those it called
                    \* _safe_remove_directory on; failed, those for which
                    \* that returned False

vars ==
  <<entry, pc, exc, batch, repo_names, docker_available, runner, idx, attempt,
    returncode, results, summary, repos_dir, results_dir, calls, sweep>>

NoSummary == [printed |-> FALSE, successful |-> 0, total |-> 0]

NoSweep == [todo |-> <<>>, tried |-> {}, failed |-> {}]

\* Lists without repetition over a set of names.
NoDupSeqs(S) ==
  {s \in UNION {[1..n -> S] : n \in 0..Cardinality(S)} :
     \A i, j \in DOMAIN s : i # j => s[i] # s[j]}

\* Positions of the run at which it has ended.
Ended == {"exited", "done", "failed", "returned", "raised", "cleaned"}

Init ==
  /\ entry \in {"main", "api"}
  /\ pc = "start"
  /\ exc = "none"
  /\ batch = 1
  /\ repo_names = <<>>
  /\ docker_available = FALSE
  /\ runner = FALSE
  /\ idx = 1
  /\ attempt = 0
  /\ returncode = 0
  /\ results = <<>>
  /\ summary = NoSummary
  /\ repos_dir = {}
  /\ results_dir = [r \in Repos |-> NoFile]
  /\ calls = [r \in Repos |-> {}]
  /\ sweep = NoSweep

\* An exception leaves the current function and every caller up to main's
\* "except Exception" (369-370), or up to the caller of the API.
Raise(e) ==
  /\ pc' = IF entry = "main" THEN "failed" ELSE "raised"
  /\ exc' = e

\* Variant: only the repositories that passed are kept.
append_if_success(list, result) ==
  IF result.success THEN Append(list, result) ELSE list

\* Variant: the newest result is put first.
prepend(list, result) == <<result>> \o list

\* results.append(result) (249)
append(list, result) == Append(list, result)

\* run_tests_for_repos 249-253: store the result, print it, next iteration.
Record(result) ==
  /\ results' = append(results, result)
  /\ LET e == display_repo_results(result)
     IN IF e = "none"
        THEN pc' = "loop" /\ idx' = idx + 1 /\ exc' = exc
        ELSE Raise(e) /\ idx' = idx

Called(repo, events) == [calls EXCEPT ![repo] = @ \cup events]

\* main 318-326: discovery, the "eval" filter, the empty-list return.
MainDiscover ==
  /\ entry = "main" /\ pc = "start"
  /\ \/ /\ Raise("ValueError")
        /\ UNCHANGED repo_names
     \/ \E names \in NoDupSeqs(Repos \cup {"eval"}) :
          /\ repo_names' = SelectSeq(names, LAMBDA n : n # "eval")
          /\ pc' = IF repo_names' = <<>> THEN "exited" ELSE "construct"
          /\ exc' = exc
  /\ UNCHANGED <<entry, batch, docker_available, runner, idx, attempt, returncode,
                 results, summary, repos_dir, results_dir, calls, sweep>>

\* A caller of the class picks the list itself.
ApiCall ==
  /\ entry = "api" /\ pc = "start"
  /\ repo_names' \in NoDupSeqs(Repos)
  /\ pc' = "construct"
  /\ UNCHANGED <<entry, exc, batch, docker_available, runner, idx, attempt,
                 returncode, results, summary, repos_dir, results_dir, calls, sweep>>

\* What "docker version" can do (41-53): exit 0, exit non-zero, time out,
\* not be found, or fail to start with another OSError.
Probes == {"ok", "nonzero", "timeout", "notfound", "oserror"}

check_docker_availability(probe) == probe = "ok"

\* RepoTestRunner.__init__ 31-39
Construct ==
  /\ pc = "construct"
  /\ \E probe \in Probes :
       IF probe = "oserror"
       THEN Raise("PermissionError") /\ UNCHANGED <<docker_available, runner>>
       ELSE /\ docker_available' = check_docker_availability(probe)
            /\ runner' = TRUE
            /\ pc' = IF entry = "main" THEN "gate" ELSE "loop"
            /\ exc' = exc
  /\ UNCHANGED <<entry, batch, repo_names, idx, attempt, returncode,
                 results, summary, repos_dir, results_dir, calls, sweep>>

\* main 331-358: leave when Docker is missing, then resolve the organization.
MainGate ==
  /\ pc = "gate"
  /\ IF ~docker_available
     THEN pc' = "exited" /\ exc' = exc
     ELSE \E org_found \in BOOLEAN :
            IF org_found THEN pc' = "loop" /\ exc' = exc
            ELSE Raise("ValueError")
  /\ UNCHANGED <<entry, batch, repo_names, docker_available, runner, idx, attempt,
                 returncode, results, summary, repos_dir, results_dir, calls, sweep>>

\* Variant: the check is missing.
docker_check_missing(available) == FALSE

\* clone_and_test_repo 218: "if not self.docker_available"
docker_check(available) == ~available

\* Variant: Docker missing is reported like a clone failure.
docker_unavailable_as_clone(repo) ==
  RunResult(repo, FALSE, -1, CloneError, NoData)

\* clone_and_test_repo 219-224: the dict returned when Docker is missing.
docker_unavailable_result(repo) ==
  RunResult(repo, FALSE, -1, DockerError, NoData)

\* Variant: a clone that failed is reported as a success.
clone_failed_as_success(repo) == RunResult(repo, TRUE, 0, NoError, NoData)

\* clone_and_test_repo 228-233: the dict returned when the clone failed.
clone_failed_result(repo) == RunResult(repo, FALSE, -1, CloneError, NoData)

\* _run_tests_with_compose 205-211: the dict returned on CalledProcessError.
compose_failed_result(repo, code) ==
  RunResult(repo, FALSE, code, ComposeError, NoData)

\* Variant: an existing directory is never cleaned.
repo_path_exists_never(repo, dirs) == FALSE

\* _clone_repo_locally 98: "if repo_path.exists()"
repo_path_exists(repo, dirs) == repo \in dirs

\* Variant: the loop goes on as long as the removal fails.
retry_always(n) == TRUE

\* _safe_remove_directory 82: "if attempt < max_retries - 1" (retry)
retry(n) == n < max_retries - 1

\* Variant: repos/ is emptied before the clone.
cloned_alone(dirs, repo) == {repo}

\* What repos/ holds once "git clone <url> repos/<repo>" has exited 0.
cloned_into(dirs, repo) == dirs \cup {repo}

\* run_tests_for_repos 245-248, clone_and_test_repo 218-227 and
\* _clone_repo_locally 96-98: one iteration begins.
Iterate ==
  /\ pc = "loop" /\ idx <= Len(repo_names)
  /\ LET repo == repo_names[idx]
     IN IF docker_check(docker_available)
        THEN /\ Record(docker_unavailable_result(repo))
             /\ UNCHANGED attempt
        ELSE /\ pc' = IF repo_path_exists(repo, repos_dir) THEN "remove"
                      ELSE "git"
             /\ attempt' = 0
             /\ UNCHANGED <<exc, idx, results>>
  /\ UNCHANGED <<entry, batch, repo_names, docker_available, runner, returncode,
                 summary, repos_dir, results_dir, calls, sweep>>

\* _safe_remove_directory 66-90: one attempt of the retry loop; after it
\* _clone_repo_locally goes on whatever the outcome (100-103).
RemoveAttempt ==
  /\ pc = "remove"
  /\ LET repo == repo_names[idx]
     IN \E removed \in BOOLEAN :
          IF removed
          THEN /\ repos_dir' = repos_dir \ {repo}
               /\ calls' = Called(repo, {"rmtree", "removed"})
               /\ pc' = "git"
               /\ UNCHANGED attempt
          ELSE /\ repos_dir' = repos_dir
               /\ IF retry(attempt)
                  THEN /\ attempt' = attempt + 1
                       /\ calls' = Called(repo, {"rmtree"})
                       /\ pc' = pc
                  ELSE /\ attempt' = attempt
                       /\ calls' = Called(repo, {"rmtree", "remove_failed"})
                       /\ pc' = "git"
  /\ UNCHANGED <<entry, exc, batch, repo_names, docker_available, runner, idx,
                 returncode, results, summary, results_dir, sweep>>

\* What starting a child process with check=True can do: exit 0, exit
\* non-zero (CalledProcessError), or not start (FileNotFoundError).
Outcomes == {"ok", "nonzero", "nolaunch"}

\* _clone_repo_locally 105-117 and clone_and_test_repo 227-236
GitClone ==
  /\ pc = "git"
  /\ LET repo == repo_names[idx]
     IN \E outcome \in Outcomes :
          /\ calls' = Called(repo, IF outcome = "ok" THEN {"git", "cloned"}
                                   ELSE {"git"})
          /\ CASE outcome = "nolaunch" ->
                    /\ Raise("FileNotFoundError")
                    /\ UNCHANGED <<idx, results, repos_dir>>
               [] outcome = "nonzero" ->
                    /\ Record(clone_failed_result(repo))
                    /\ UNCHANGED repos_dir
               [] outcome = "ok" ->
                    /\ repos_dir' = cloned_into(repos_dir, repo)
                    /\ pc' = "build"
                    /\ UNCHANGED <<exc, idx, results>>
  /\ UNCHANGED <<entry, batch, repo_names, docker_available, runner, attempt,
                 returncode, summary, results_dir, sweep>>

\* _run_tests_with_compose 126-134 and 205-211: docker-compose build.
ComposeBuild ==
  /\ pc = "build"
  /\ LET repo == repo_names[idx]
     IN \E outcome \in Outcomes :
          /\ calls' = Called(repo, IF outcome = "ok" THEN {"build", "built"}
                                   ELSE {"build"})
          /\ CASE outcome = "nolaunch" ->
                    /\ Raise("FileNotFoundError")
                    /\ UNCHANGED <<idx, results>>
               [] outcome = "nonzero" ->
                    \E code \in ExitCodes \ {0} :
                      Record(compose_failed_result(repo, code))
               [] outcome = "ok" ->
                    /\ pc' = "run"
                    /\ UNCHANGED <<exc, idx, results>>
  /\ UNCHANGED <<entry, batch, repo_names, docker_available, runner, attempt,
                 returncode, summary, repos_dir, results_dir, sweep>>

\* _run_tests_with_compose 137-163: docker-compose run, without check=True.
\* The harness in the container writes one of `artifacts` to the results
\* file of the repository, or writes nothing.
ComposeRun(artifacts) ==
  /\ pc = "run"
  /\ LET repo == repo_names[idx]
     IN \/ /\ Raise("FileNotFoundError")
           /\ calls' = Called(repo, {"run"})
           /\ UNCHANGED <<returncode, results_dir>>
        \/ \E code \in ExitCodes :
             /\ returncode' = code
             /\ pc' = "read"
             /\ exc' = exc
             /\ \/ /\ calls' = Called(repo, {"run", "exited"})
                   /\ UNCHANGED results_dir
                \/ \E written \in artifacts :
                     /\ calls' = Called(repo, {"run", "exited", "wrote"})
                     /\ results_dir' = [results_dir EXCEPT ![repo] = written]
  /\ UNCHANGED <<entry, batch, repo_names, docker_available, runner, idx, attempt,
                 results, summary, repos_dir, sweep>>

\* _run_tests_with_compose 165-203
ReadResults ==
  /\ pc = "read"
  /\ LET repo == repo_names[idx]
         read == read_results(repo, results_dir[repo], returncode)
     IN IF read.exc = "none"
        THEN Record(read.result)
        ELSE Raise(read.exc) /\ UNCHANGED <<idx, results>>
  /\ UNCHANGED <<entry, batch, repo_names, docker_available, runner, attempt,
                 returncode, summary, repos_dir, results_dir, calls, sweep>>

\* run_tests_for_repos 255: the loop is over, the list is returned.
Return ==
  /\ pc = "loop" /\ idx > Len(repo_names)
  /\ pc' = IF entry = "main" THEN "summary" ELSE "returned"
  /\ UNCHANGED <<entry, exc, batch, repo_names, docker_available, runner, idx,
                 attempt, returncode, results, summary, repos_dir,
                 results_dir, calls, sweep>>

\* sum(1 for r in all_results if r["success"]) (364)
successful(all_results) ==
  Cardinality({i \in DOMAIN all_results : all_results[i].success})

\* main 363-367
MainSummary ==
  /\ pc = "summary"
  /\ summary' = [printed |-> TRUE, successful |-> successful(results),
                 total |-> Len(results)]
  /\ pc' = "done"
  /\ UNCHANGED <<entry, exc, batch, repo_names, docker_available, runner, idx,
                 attempt, returncode, results, repos_dir, results_dir, calls, sweep>>

\* Orders in which Path.iterdir can yield the directories of repos/.
Orders(dirs) == {s \in NoDupSeqs(dirs) : Len(s) = Cardinality(dirs)}

\* cleanup 297-308: a caller of the class calls runner.cleanup() once
\* run_tests_for_repos has returned or raised (main never calls it).
\* "docker-compose down" runs without check=True, so only a failure to start
\* it raises; then the for loop over repos/ begins.
CleanupStart ==
  /\ entry = "api" /\ runner /\ pc \in {"returned", "raised"}
  /\ \/ /\ Raise("FileNotFoundError")
        /\ UNCHANGED <<attempt, sweep>>
     \/ \E order \in Orders(repos_dir) :
          /\ sweep' = [todo |-> order, tried |-> {}, failed |-> {}]
          /\ attempt' = 0
          /\ pc' = "cleanup"
          /\ exc' = "none"
  /\ UNCHANGED <<entry, batch, repo_names, docker_available, runner, idx,
                 returncode, results, summary, repos_dir, results_dir, calls>>

\* Variant: the loop of cleanup ends at the first removal that fails.
stop_at_failure(todo) == <<>>

\* cleanup 308-310: the value _safe_remove_directory returns is not used, so
\* after a removal that failed the for loop goes on with the directories left.
after_failure(todo) == Tail(todo)

\* cleanup 308-310 with _safe_remove_directory 66-90: one attempt on the
\* directory the for loop is at; the loop moves on when the removal returns.
CleanupAttempt ==
  /\ pc = "cleanup" /\ sweep.todo # <<>>
  /\ LET dir == Head(sweep.todo)
     IN \E removed \in BOOLEAN :
          IF removed
          THEN /\ repos_dir' = repos_dir \ {dir}
               /\ sweep' = [sweep EXCEPT !.todo = Tail(@),
                                          !.tried = @ \cup {dir}]
               /\ attempt' = 0
          ELSE /\ repos_dir' = repos_dir
               /\ IF retry(attempt)
                  THEN /\ attempt' = attempt + 1
                       /\ sweep' = [sweep EXCEPT !.tried = @ \cup {dir}]
                  ELSE /\ attempt' = 0
                       /\ sweep' = [sweep EXCEPT !.todo = after_failure(@),
                                                  !.tried = @ \cup {dir},
                                                  !.failed = @ \cup {dir}]
  /\ UNCHANGED <<entry, pc, exc, batch, repo_names, docker_available, runner,
                 idx, returncode, results, summary, results_dir, calls>>

\* cleanup 308-310: the for loop is over, cleanup returns.
CleanupReturn ==
  /\ pc = "cleanup" /\ sweep.todo = <<>>
  /\ pc' = "cleaned"
  /\ UNCHANGED <<entry, exc, batch, repo_names, docker_available, runner, idx,
                 attempt, returncode, results, summary, repos_dir,
                 results_dir, calls, sweep>>

\* The process has ended; the program is started again later, over the
\* repos/ and results/ directories the earlier run left.
Restart ==
  /\ pc \in Ended /\ batch < MaxBatches
  /\ batch' = batch + 1
  /\ entry' \in {"main", "api"}
  /\ pc' = "start"
  /\ exc' = "none"
  /\ repo_names' = <<>>
  /\ docker_available' = FALSE
  /\ runner' = FALSE
  /\ idx' = 1
  /\ attempt' = 0
  /\ returncode' = 0
  /\ results' = <<>>
  /\ summary' = NoSummary
  /\ calls' = [r \in Repos |-> {}]
  /\ sweep' = NoSweep
  /\ UNCHANGED <<repos_dir, results_dir>>

Next ==
  \/ MainDiscover
  \/ ApiCall
  \/ Construct
  \/ MainGate
  \/ Iterate
  \/ RemoveAttempt
  \/ GitClone
  \/ ComposeBuild
  \/ ComposeRun(BatchArtifacts)
  \/ ReadResults
  \/ Return
  \/ MainSummary
  \/ CleanupStart
  \/ CleanupAttempt
  \/ CleanupReturn
  \/ Restart

Spec == Init /\ [][Next]_vars

\* ------------------------------------------------ one repository, any artifact
\* A caller runs run_tests_for_repos on one repository, with Docker up, over
\* directories an earlier run may have left; the harness may write any
\* artifact of AllArtifacts.
InitRun ==
  /\ entry = "api"
  /\ pc = "loop"
  /\ exc = "none"
  /\ batch = 1
  /\ \E repo \in Repos :
       /\ repo_names = <<repo>>
       /\ repos_dir \in {{}, {repo}}
       /\ \E left \in {NoFile} \cup BatchArtifacts :
            results_dir = [r \in Repos |-> IF r = repo THEN left ELSE NoFile]
  /\ docker_available = TRUE
  /\ runner = TRUE
  /\ idx = 1
  /\ attempt = 0
  /\ returncode = 0
  /\ results = <<>>
  /\ summary = NoSummary
  /\ calls = [r \in Repos |-> {}]
  /\ sweep = NoSweep

NextRun ==
  \/ Iterate
  \/ RemoveAttempt
  \/ GitClone
  \/ ComposeBuild
  \/ ComposeRun(AllArtifacts)
  \/ ReadResults
  \/ Return

SpecRun == InitRun /\ [][NextRun]_vars

\* ------------------------------------------------------------------ claims
\* The results of this run that _run_tests_with_compose returned after the
\* container exited (those with a results_data key).
ComposeResults == {i \in DOMAIN results : results[i].results_data # NoData}

\* The count a report states under a key: an absent key reads as 0; a value
\* that is no number is no count (-1 stands for it).
Count(field) ==
  IF field.kind = "absent" THEN 0
  ELSE IF field.kind = "int" THEN field.v
  ELSE -1

\* C1: whenever the results file of the repository holds a JSON object, the
\* success _run_tests_with_compose returns is TRUE exactly when total > 0,
\* failed = 0 and error = 0, absent keys read as 0.
C1_SuccessIffCounts ==
  \A i \in DOMAIN results :
    LET file == results_dir[results[i].repo_name]
    IN ("exited" \in calls[results[i].repo_name] /\ file.form = "object")
       => (results[i].success
             <=> (Count(file.total) > 0 /\ Count(file.failed) = 0
                    /\ Count(file.error) = 0))

\* C1 witness: a run returned success for a report that has tests and leaves
\* out the failed and error keys.
C1_Witness ==
  \E i \in DOMAIN results :
    LET file == results_dir[results[i].repo_name]
    IN /\ "exited" \in calls[results[i].repo_name]
       /\ file.form = "object"
       /\ file.total = Num(1) /\ file.failed = Absent /\ file.error = Absent
       /\ results[i].success

\* C2: success of a container run is decided by the results file alone: with
\* any other exit code of the container the same file gives the same
\* success; a non-zero exit with total = MaxCount, failed = 0, error = 0 is a
\* success, a zero exit with failed > 0 is not.
C2_SuccessIgnoresExitCode ==
  \A i \in ComposeResults :
    LET repo == results[i].repo_name
        file == results_dir[repo]
    IN /\ \A code \in ExitCodes :
            LET other == read_results(repo, file, code)
            IN other.exc = "none" /\ other.result.success = results[i].success
       /\ (results[i].exit_code # 0 /\ file.form = "object"
             /\ file.total = Num(MaxCount) /\ file.failed = Num(0)
             /\ file.error = Num(0))
            => results[i].success
       /\ (results[i].exit_code = 0 /\ file.form = "object"
             /\ Count(file.failed) > 0)
            => ~results[i].success

\* C2 witness: the container exited 1 and the run is a success.
C2_Witness ==
  \E i \in ComposeResults :
    /\ results[i].exit_code = 1
    /\ results[i].success
    /\ results[i].results_data.total = Num(MaxCount)

\* C3: a failure while one repository is processed never aborts the batch:
\* the run does not end with an exception once work on a repository has
\* begun, and when it has ended every repository of repo_names has its own
\* RunResult.
C3_FailureNeverAbortsBatch ==
  ((\E r \in Repos : calls[r] # {}) /\ pc \in Ended)
    => /\ exc = "none"
       /\ \A j \in DOMAIN repo_names :
            j \in DOMAIN results /\ results[j].repo_name = repo_names[j]

\* C4: when main prints the summary, the total is the length of repo_names
\* and the success count is the number of results with success = TRUE,
\* however many clones or container runs failed.
C4_SummaryCounts ==
  summary.printed
    => /\ summary.total = Len(repo_names)
       /\ summary.successful =
            Cardinality({j \in DOMAIN repo_names :
                           j \in DOMAIN results /\ results[j].success})

\* C4 witness: the summary of a batch of two in which every clone failed.
C4_Witness ==
  /\ summary.printed
  /\ Len(repo_names) = 2
  /\ \A j \in DOMAIN results : results[j].error = CloneError
  /\ summary.total = 2 /\ summary.successful = 0

\* C5: the stored results are in the order of repo_names at every point, and
\* nothing is done for the repository at position j before the results of
\* the j - 1 repositories ahead of it are stored.
C5_ResultsInOrder ==
  /\ Len(results) <= Len(repo_names)
  /\ \A i \in DOMAIN results : results[i].repo_name = repo_names[i]
  /\ \A j \in DOMAIN repo_names :
       calls[repo_names[j]] # {} => Len(results) >= j - 1

\* C5 witness: the second repository is being built after the first one,
\* whose container run failed, was stored.
C5_Witness ==
  /\ Len(repo_names) = 2 /\ idx = 2 /\ pc = "build"
  /\ Len(results) = 1
  /\ results[1].repo_name = repo_names[1]
  /\ results[1].results_data # NoData

\* The clone of the repository failed: git was called and did not exit 0.
CloneFailed(repo) == "git" \in calls[repo] /\ "cloned" \notin calls[repo]

\* C6: when the clone of a repository fails, its RunResult has success =
\* FALSE and error = "Failed to clone repository", neither the build nor the
\* tests are started for it, and the batch goes on.
C6_CloneFailureRecorded ==
  \A j \in DOMAIN repo_names :
    CloneFailed(repo_names[j])
      => /\ j \in DOMAIN results
         /\ results[j].repo_name = repo_names[j]
         /\ ~results[j].success
         /\ results[j].error = CloneError
         /\ calls[repo_names[j]] \cap {"build", "run"} = {}
         /\ exc = "none"

\* The runner exists and its liveness probe found no Docker.
DockerDown == runner /\ ~docker_available

\* C7: when the liveness probe failed (docker_available is not TRUE: the
\* probe returned False, or raised before the runner existed), nothing is
\* removed, cloned, built or executed for any repository in the whole run.
C7_NoWorkWithoutDocker ==
  ~docker_available => \A r \in Repos : calls[r] = {}

\* C7 witness: run_tests_for_repos went through two repositories on a
\* runner whose probe had failed.
C7_Witness ==
  /\ DockerDown
  /\ pc = "returned"
  /\ Len(repo_names) = 2 /\ Len(results) = 2

\* C8 as stated: with Docker unavailable the batch returns at once, the
\* loop over the repositories is not executed, and the unavailability is
\* recorded once (success = FALSE, exit_code = -1), not once per repository.
C8_RecordedOnce ==
  DockerDown
    => /\ idx = 1
       /\ Len(results) <= 1
       /\ \A i \in DOMAIN results :
            ~results[i].success /\ results[i].exit_code = -1

\* C8 amended: with Docker unavailable main() returns before the loop,
\* with no RunResult and no summary; run_tests_for_repos on such a runner
\* executes the loop and records for each repository, in order, success =
\* FALSE, exit_code = -1 and the Docker-unavailable error.
C8_RecordedPerRepository ==
  DockerDown
    => /\ entry = "main" => (results = <<>> /\ pc \in {"gate", "exited"})
       /\ \A i \in DOMAIN results :
            /\ i \in DOMAIN repo_names
            /\ results[i] = RunResult(repo_names[i], FALSE, -1, DockerError,
                                       NoData)
       /\ pc = "returned" => Len(results) = Len(repo_names)
       /\ summary = NoSummary

\* C8 witness: run_tests_for_repos returned two Docker-unavailable results.
C8_Witness ==
  /\ DockerDown
  /\ entry = "api" /\ pc = "returned"
  /\ Len(results) = 2
  /\ results[2].error = DockerError /\ results[2].exit_code = -1

\* The Docker step of the repository failed: the build did not exit 0, or
\* the test container could not be started.
ComposeFailed(repo) ==
  \/ "build" \in calls[repo] /\ "built" \notin calls[repo]
  \/ "run" \in calls[repo] /\ "exited" \notin calls[repo]

\* C9: a Docker build failure or launch failure is captured in the
\* RunResult of the repository as success = FALSE with an error text,
\* nothing is raised, and the batch goes on. (The claim also asks for
\* exit_code = -1; compose_failed_result stores the return code of the
\* build instead. The formula leaves that part out: it is the raising that
\* it shows.)
C9_ComposeFailureCaptured ==
  \A j \in DOMAIN repo_names :
    ComposeFailed(repo_names[j])
      => /\ exc = "none"
         /\ j \in DOMAIN results
         /\ ~results[j].success
         /\ results[j].error # NoError

\* C10: once the container has exited and the result is in, a repository
\* whose results file does not exist has results_data.error = "Results file
\* not created" and success = FALSE.
C10_MissingFile ==
  \A j \in DOMAIN repo_names :
    LET repo == repo_names[j]
    IN ("exited" \in calls[repo] /\ results_dir[repo] = NoFile
          /\ ~(idx = j /\ pc = "read"))
       => /\ j \in DOMAIN results
          /\ results[j].repo_name = repo
          /\ results[j].results_data.error = Str("Results file not created")
          /\ ~results[j].success

\* C10 witness: the container exited 0, wrote nothing, and the result says
\* the file was not created.
C10_Witness ==
  \E i \in DOMAIN results :
    /\ "exited" \in calls[results[i].repo_name]
    /\ results_dir[results[i].repo_name] = NoFile
    /\ results[i].exit_code = 0
    /\ results[i].results_data = ErrorData("Results file not created")

\* A results file that exists and is no test report: bytes that are not
\* UTF-8, text that is not JSON, or an object with a count that is no number.
Unparseable(file) ==
  \/ file.form \in {"undecodable", "invalid_json"}
  \/ /\ file.form = "object"
     /\ "str" \in {file.total.kind, file.failed.kind, file.error.kind}

\* C11: once the container has exited and the results file of the repository
\* has been read, a file that is no test report has given a RunResult with
\* success = FALSE, and nothing was raised. (The claim also asks for
\* results_data.error to be set; the formula leaves that part out: it is the
\* raising that it shows.)
C11_UnparseableCaptured ==
  \A j \in DOMAIN repo_names :
    LET repo == repo_names[j]
    IN ("exited" \in calls[repo] /\ Unparseable(results_dir[repo])
          /\ ~(idx = j /\ pc = "read"))
       => /\ exc = "none"
          /\ j \in DOMAIN results
          /\ ~results[j].success

\* C12: a results file that is a JSON object is read with each absent count
\* as 0 and absent test_details as the empty list: with failed and error
\* absent a report with total > 0 passes; and whenever total is absent or 0
\* the RunResult has success = FALSE whatever failed and error hold, and
\* nothing is raised.
C12_MissingFieldsAsZero ==
  \A j \in DOMAIN repo_names :
    LET repo == repo_names[j]
        file == results_dir[repo]
        detailed_results == DetailedTestResults(file)
    IN ("exited" \in calls[repo] /\ file.form = "object"
          /\ ~(idx = j /\ pc = "read"))
       => /\ \A key \in {"total", "failed", "error"} :
               file[key] = Absent => detailed_results[key] = Num(0)
          /\ file.test_details = "absent"
               => detailed_results.test_details = "empty"
          /\ (Count(file.total) > 0 /\ file.failed = Absent
                /\ file.error = Absent)
               => (j \in DOMAIN results /\ results[j].success)
          /\ Count(file.total) = 0
               => /\ exc = "none"
                  /\ j \in DOMAIN results
                  /\ ~results[j].success

\* C12 witness: the run returned for a report without a total whose other
\* counts alone would pass, and the result is a failure.
C12_Witness ==
  /\ pc = "returned" /\ exc = "none"
  /\ \E i \in DOMAIN results :
       LET file == results_dir[results[i].repo_name]
       IN /\ "exited" \in calls[results[i].repo_name]
          /\ file.form = "object"
          /\ file.total = Absent /\ file.failed = Absent
          /\ file.error = Num(0)
          /\ results[i].results_data = file
          /\ ~results[i].success

\* C13: _safe_remove_directory on a directory that exists. Every step that
\* is an attempt (in _clone_repo_locally and in cleanup alike) is one of at
\* most max_retries: attempt counts the failed ones before it. The step
\* never raises; when the directory is gone the removal has returned True and
\* no attempt follows; the removal returns False only after the attempt
\* numbered max_retries failed; otherwise one more attempt follows on the
\* directory, which is still there.
C13_RemovalBounded ==
  [][/\ pc = "remove"
        => LET repo == repo_names[idx]
           IN /\ attempt < max_retries
              /\ exc' = "none" /\ pc' \in {"remove", "git"}
              /\ repo \notin repos_dir'
                   => (pc' = "git" /\ "removed" \in calls'[repo])
              /\ (repo \in repos_dir' /\ pc' = "git")
                   => /\ attempt = max_retries - 1
                      /\ "remove_failed" \in calls'[repo]
              /\ pc' = "remove"
                   => (attempt' = attempt + 1 /\ repo \in repos_dir')
     /\ (pc = "cleanup" /\ sweep.todo # <<>>)
        => LET dir == Head(sweep.todo)
           IN /\ attempt < max_retries
              /\ exc' = exc /\ pc' = "cleanup"
              /\ dir \notin repos_dir'
                   => (sweep'.todo = Tail(sweep.todo)
                         /\ dir \notin sweep'.failed)
              /\ (dir \in repos_dir' /\ sweep'.todo # sweep.todo)
                   => /\ attempt = max_retries - 1
                      /\ dir \in sweep'.failed
              /\ sweep'.todo = sweep.todo
                   => (attempt' = attempt + 1 /\ dir \in repos_dir')
    ]_vars

\* C13 witness: the removal before a clone failed max_retries times and
\* returned False, nothing raised, and the clone is next.
C13_Witness ==
  /\ pc = "git" /\ exc = "none"
  /\ attempt = max_retries - 1
  /\ "remove_failed" \in calls[repo_names[idx]]
  /\ repo_names[idx] \in repos_dir

\* C14, as claimed: when git clone is about to be invoked for a repository,
\* no directory of that name is left under repos/.
C14_CleanBeforeClone ==
  pc = "git" => repo_names[idx] \notin repos_dir

\* C14, as the code has it: when git clone is about to be invoked, a
\* directory of that name is left under repos/ only if its removal was
\* attempted max_retries times and returned False; a removal that returned
\* True left none. The clone is invoked in either case.
C14_RemovalTriedBeforeClone ==
  pc = "git"
    => LET repo == repo_names[idx]
       IN /\ exc = "none"
          /\ repo \in repos_dir
               => /\ "remove_failed" \in calls[repo]
                  /\ attempt = max_retries - 1
          /\ "removed" \in calls[repo] => repo \notin repos_dir
          /\ calls[repo] \cap {"removed", "remove_failed"} = {}
               => "rmtree" \notin calls[repo]

\* C14 witness: git clone was invoked for a repository after the removal of
\* its directory had failed.
C14_Witness ==
  \E repo \in Repos : {"remove_failed", "git"} \subseteq calls[repo]

\* C15: the step that runs git clone never raises: whatever the failure of
\* the client, _clone_repo_locally returns (False) and the run goes on.
C15_CloneNeverRaises ==
  [][pc = "git" => (exc' = "none" /\ pc' \notin {"raised", "failed"})]_vars

\* C16, as claimed: when the clone for the next repository of the list
\* starts, the directory cloned for the one before it is gone from repos/.
C16_OneWorkspaceLive ==
  (pc = "git" /\ idx > 1 /\ "cloned" \in calls[repo_names[idx - 1]])
    => repo_names[idx - 1] \notin repos_dir

\* Positions of the list whose repository has been worked on in this run
\* and has no RunResult yet.
InProgress ==
  {j \in DOMAIN repo_names :
     calls[repo_names[j]] # {} /\ j \notin DOMAIN results}

\* C16, as the code has it: the repositories are handled one at a time (the
\* only one without a result that has been worked on is the one the loop is
\* at, and no container runs for any other), while every directory cloned
\* in this run stays under repos/ until cleanup gets to it.
C16_OneAtATime ==
  /\ InProgress \subseteq {idx}
  /\ \A j \in DOMAIN repo_names :
       ("run" \in calls[repo_names[j]] /\ "exited" \notin calls[repo_names[j]])
         => j = idx
  /\ \A repo \in Repos :
       ("cloned" \in calls[repo] /\ repo \notin sweep.tried)
         => repo \in repos_dir

\* C16 witness: the clone of the second repository is about to start and
\* the directory cloned for the first is still under repos/.
C16_Witness ==
  /\ pc = "git" /\ idx = 2
  /\ "cloned" \in calls[repo_names[1]]
  /\ 1 \in DOMAIN results
  /\ repo_names[1] \in repos_dir

\* C17: once main has printed its summary, cleanup has run: a directory
\* cloned in this run is left under repos/ only if cleanup failed to remove
\* it in max_retries attempts.
C17_WorkspacesGoneAtEnd ==
  (entry = "main" /\ pc = "done" /\ summary.printed)
    => \A repo \in Repos :
         "cloned" \in calls[repo]
           => (repo \notin repos_dir \/ repo \in sweep.failed)

Range(seq) == {seq[i] : i \in DOMAIN seq}

\* C18: in the for loop of cleanup every directory under repos/ has had its
\* removal attempted or is still to be visited, a removal that failed
\* max_retries times included; nothing is raised in the loop; and when
\* cleanup returns, the directories left under repos/ are those whose removal
\* was attempted and failed.
C18_CleanupVisitsAll ==
  pc \in {"cleanup", "cleaned"}
    => /\ exc = "none"
       /\ repos_dir \subseteq (sweep.tried \cup Range(sweep.todo))
       /\ sweep.failed \subseteq sweep.tried
       /\ pc = "cleaned"
            => (sweep.todo = <<>> /\ repos_dir \subseteq sweep.failed)

\* C18 witness: the removal of one directory has failed for good and the
\* removal of the next one has been attempted.
C18_Witness ==
  /\ pc = "cleanup" /\ exc = "none"
  /\ sweep.failed # {}
  /\ sweep.todo # <<>>
  /\ Head(sweep.todo) \in sweep.tried
  /\ sweep.failed \subseteq repos_dir

\* C19: a RunResult of a repository whose container ran in this run and
\* wrote no results file has success = FALSE: a report that an earlier run
\* left in the results file is not taken for this run's. (Stated of the runs
\* in which nothing was raised. The claim also fixes results_data.error to
\* "Results file not created"; the formula leaves that part out: it is the
\* passing result that it shows.)
C19_NoStaleResults ==
  \A i \in DOMAIN results :
    LET repo == results[i].repo_name
    IN ("exited" \in calls[repo] /\ "wrote" \notin calls[repo]
          /\ exc = "none")
       => ~results[i].success

\* C20: a RunResult with success = TRUE is there only for a repository for
\* which, in this run, git clone exited 0, docker-compose build was started
\* and exited 0, the container was started and exited, and a results file
\* holding an object with total > 0 was read into results_data. The steps
\* come in that order: none is started unless the one before it succeeded.
\* A repository whose clone failed, or whose build or container launch
\* failed, has no RunResult with success = TRUE.
C20_SuccessOnlyAfterFullRun ==
  /\ \A i \in DOMAIN results :
       results[i].success
         => LET repo == results[i].repo_name
            IN /\ {"git", "cloned", "build", "built", "run", "exited"}
                    \subseteq calls[repo]
               /\ results[i].results_data = results_dir[repo]
               /\ results[i].results_data.form = "object"
               /\ Count(results[i].results_data.total) > 0
               /\ results[i].error = NoError
  /\ \A repo \in Repos :
       /\ "build" \in calls[repo] => "cloned" \in calls[repo]
       /\ "run" \in calls[repo] => "built" \in calls[repo]
       /\ "exited" \in calls[repo] => "run" \in calls[repo]
       /\ (CloneFailed(repo) \/ ComposeFailed(repo))
            => \A i \in DOMAIN results :
                 results[i].repo_name = repo => ~results[i].success

\* C20 witness: of two repositories the first failed to clone and has a
\* failure recorded, the second went through clone, build and container
\* and has success = TRUE.
C20_Witness ==
  /\ Len(results) = 2 /\ pc = "loop"
  /\ CloneFailed(results[1].repo_name) /\ ~results[1].success
  /\ results[2].success
  /\ "exited" \in calls[results[2].repo_name]

====
